---- MODULE Spec2Model ----
(***************************************************************************)
(* Model of the formula-to-CNF translator (formula2cnf.py) and of the DPLL *)
(* decision procedure (dpll.py).                                           *)
(*                                                                         *)
(* Python values that can be either a string or an integer (tokens on the  *)
(* parse stack, the root, the members of a subformula or of a clause of    *)
(* the translator, the words of a text line) are tagged records, see IntV  *)
(* and StrV.  The solver's clauses are sequences of integers.              *)
(***************************************************************************)
EXTENDS Integers, Sequences, FiniteSets, TLC

VARIABLES
    script,            \* the calls the driver still has to make, in order
    \* ---- DPLL instance (dpll.py) ----
    clauses,           \* self.clauses
    made_decisions,    \* self.made_decisions
    made_propagations, \* self.made_propagations
    assignment,        \* self.assignment: a set, or the sorted list after SAT
    frames,            \* the call stack of dpll(): one record per active call
    ret,               \* value returned by the dpll() call that just ended
    result,            \* value returned by solve(): "none" while running
    popPolicy,         \* how set.pop() picks its element in this interpreter
    solved,            \* history: one record per finished solve()
    \* ---- Formula2CNF instance (formula2cnf.py) ----
    mode,              \* self.mode
    variables,         \* self.variables: id -> name
    variables_to_integer, \* self.variables_to_integer: name -> id
    variables_cnt,     \* self.variables_cnt
    subformulas,       \* self.subformulas: id -> [op, operands...]
    eclauses,          \* self.clauses of the translator
    root,              \* self.root
    tokens,            \* parse_formula: the token list
    pos,               \* parse_formula: index of the next token
    stack,             \* parse_formula: the stack
    epc,               \* where run() is: "idle", "parsing", "done"
    printed,           \* what the last call of run() has printed so far
    returned,          \* what run() returned
    translated         \* history: one record per finished run()

svars == <<clauses, made_decisions, made_propagations, assignment, frames,
           ret, result, popPolicy, solved>>
evars == <<mode, variables, variables_to_integer, variables_cnt, subformulas,
           eclauses, root, tokens, pos, stack, epc, printed, returned,
           translated>>
vars == <<script, svars, evars>>

(***************************************************************************)
(* Values and small helpers                                                *)
(***************************************************************************)
IntV(n) == [t |-> "int", n |-> n, s |-> ""]
StrV(str) == [t |-> "str", n |-> 0, s |-> str]
IsInt(v) == v.t = "int"
NoneV == [t |-> "none", n |-> 0, s |-> ""]

Abs(x) == IF x < 0 THEN -x ELSE x

Range(seq) == {seq[i] : i \in 1..Len(seq)}

(***************************************************************************)
(* DPLL: the decision heuristic                                            *)
(***************************************************************************)
RECURSIVE CountIn(_, _)
CountIn(clause, lit) ==
    IF clause = <<>> THEN 0
    ELSE (IF Head(clause) = lit THEN 1 ELSE 0) + CountIn(Tail(clause), lit)

RECURSIVE CountAll(_, _)
CountAll(formula, lit) ==
    IF formula = <<>> THEN 0
    ELSE CountIn(Head(formula), lit) + CountAll(Tail(formula), lit)

LiteralsOf(formula) == UNION {Range(formula[i]) : i \in 1..Len(formula)}

\* positive_clause_cnt[k] / negative_clause_cnt[k]: incremented once per
\* occurrence met by the two nested loops
positive_clause_cnt(formula, k) == CountAll(formula, k)
negative_clause_cnt(formula, k) == CountAll(formula, -k)

PosKeys(formula) == {l \in LiteralsOf(formula) : l > 0}
NegKeys(formula) == {Abs(l) : l \in {m \in LiteralsOf(formula) : ~(m > 0)}}

\* max(d, key=lambda k: (d[k], -k))
MaxKey(d) ==
    CHOOSE k \in DOMAIN d : \A j \in DOMAIN d :
        \/ d[k] > d[j]
        \/ d[k] = d[j] /\ k <= j

choose_literal_raises(formula) ==
    PosKeys(formula) = {} /\ NegKeys(formula) = {}

choose_literal(formula) ==
    LET pos_cnt == [k \in PosKeys(formula) |-> positive_clause_cnt(formula, k)]
        neg_cnt == [k \in NegKeys(formula) |-> negative_clause_cnt(formula, k)]
    IN  IF DOMAIN neg_cnt = {} THEN MaxKey(pos_cnt)
        ELSE IF DOMAIN pos_cnt = {} THEN -MaxKey(neg_cnt)
        ELSE LET max_pos == MaxKey(pos_cnt)
                 max_neg == MaxKey(neg_cnt)
             IN  IF pos_cnt[max_pos] > neg_cnt[max_neg] THEN max_pos
                 ELSE IF pos_cnt[max_pos] < neg_cnt[max_neg] THEN -max_neg
                 ELSE IF max_pos >= max_neg THEN max_pos
                 ELSE -max_neg

(***************************************************************************)
(* DPLL: elimination and unit propagation                                  *)
(***************************************************************************)
EliminateClause(clause, asg) ==
    SelectSeq(clause, LAMBDA l : -l \notin asg)

RECURSIVE eliminate_formula(_, _)
eliminate_formula(formula, asg) ==
    IF formula = <<>> THEN <<>>
    ELSE LET clause == Head(formula)
             rest == eliminate_formula(Tail(formula), asg)
         IN  IF \E i \in 1..Len(clause) : clause[i] \in asg
             THEN rest
             ELSE <<EliminateClause(clause, asg)>> \o rest

\* Variant of UnitsOf with the length test of line 98 left out.
UnitsOfAnyLength(formula) ==
    {formula[i][1] : i \in {j \in 1..Len(formula) : Len(formula[j]) >= 1}}

\* line 98: the literals of the unit clauses
UnitsOf(formula) ==
    {formula[i][1] : i \in {j \in 1..Len(formula) : Len(formula[j]) = 1}}

\* Variant of PropagatePass whose test of line 110 ignores the sign: a clause
\* that holds the opposite literal is dropped as satisfied too.
RECURSIVE PropagatePassAnySign(_, _, _, _)
PropagatePassAnySign(formula, literal, acc, units) ==
    IF formula = <<>> THEN [ok |-> TRUE, formula |-> acc, units |-> units]
    ELSE LET clause == Head(formula)
             new_clause == SelectSeq(clause, LAMBDA o : o # -literal)
         IN  IF literal \in Range(clause) \/ -literal \in Range(clause)
             THEN PropagatePassAnySign(Tail(formula), literal, acc, units)
             ELSE IF new_clause = <<>>
             THEN [ok |-> FALSE, formula |-> <<>>, units |-> units]
             ELSE PropagatePassAnySign(Tail(formula), literal, Append(acc, new_clause),
                                       IF Len(new_clause) = 1
                                       THEN units \cup {new_clause[1]} ELSE units)

\* One pass of the for loop of unit_propagation (lines 106-124) for the
\* popped literal: [ok, formula, units]; ok is FALSE when a clause is emptied.
RECURSIVE PropagatePass(_, _, _, _)
PropagatePass(formula, literal, acc, units) ==
    IF formula = <<>> THEN [ok |-> TRUE, formula |-> acc, units |-> units]
    ELSE LET clause == Head(formula)
             new_clause == SelectSeq(clause, LAMBDA o : o # -literal)
         IN  IF literal \in Range(clause)
             THEN PropagatePass(Tail(formula), literal, acc, units)
             ELSE IF new_clause = <<>>
             THEN [ok |-> FALSE, formula |-> <<>>, units |-> units]
             ELSE PropagatePass(Tail(formula), literal, Append(acc, new_clause),
                                IF Len(new_clause) = 1
                                THEN units \cup {new_clause[1]} ELSE units)

\* set.pop(): the elements this interpreter may hand out
Min(S) == CHOOSE x \in S : \A y \in S : x <= y
Max(S) == CHOOSE x \in S : \A y \in S : x >= y
Poppable(S, policy) ==
    IF policy = "min" THEN {Min(S)}
    ELSE IF policy = "max" THEN {Max(S)}
    ELSE S

\* sorted(assignment, key=abs)
RECURSIVE SortedByAbs(_)
SortedByAbs(S) ==
    IF S = {} THEN <<>>
    ELSE LET x == CHOOSE y \in S : \A z \in S :
                     Abs(y) < Abs(z) \/ (Abs(y) = Abs(z) /\ y <= z)
         IN  <<x>> \o SortedByAbs(S \ {x})

AsSet(S) == [kind |-> "set", set |-> S, list |-> <<>>]
AsList(S) == [kind |-> "list", set |-> {}, list |-> SortedByAbs(S)]
AssignedLits(a) == IF a.kind = "set" THEN a.set ELSE Range(a.list)

(***************************************************************************)
(* DPLL: reading the exchange format                                       *)
(***************************************************************************)
\* A text is a sequence of lines; a line is [c0, parts]: its first character
\* ("" for an empty line) and its whitespace-separated words.
Line(c0, parts) == [c0 |-> c0, parts |-> parts]

ToInt(word) == word.n          \* int(item) on a numeral

RECURSIVE read_clauses(_)
read_clauses(text) ==
    IF text = <<>> THEN <<>>
    ELSE LET line == Head(text)
             rest == read_clauses(Tail(text))
         IN  IF line.c0 = "" \/ line.c0 = "c" THEN rest
             ELSE IF line.c0 # "p"
             THEN LET parts == SubSeq(line.parts, 1, Len(line.parts) - 1)
                  IN  <<[i \in 1..Len(parts) |-> ToInt(parts[i])]>> \o rest
             ELSE rest

(***************************************************************************)
(* The driver's script: the calls made on the two instances, in order.     *)
(***************************************************************************)
Cmd(op, text, m, toks) == [op |-> op, text |-> text, mode |-> m, tokens |-> toks]
SolveCmd(text) == Cmd("solve", text, "", <<>>)
SolveReturnedCmd == Cmd("solve_returned", <<>>, "", <<>>)
NewCmd(m) == Cmd("new", <<>>, m, <<>>)
RunCmd(toks) == Cmd("run", <<>>, "", toks)

(***************************************************************************)
(* DPLL: the instance and the call stack of dpll()                         *)
(***************************************************************************)
\* DPLL.__init__
DPLL_init == [clauses |-> <<>>, made_decisions |-> 0, made_propagations |-> 0,
              assignment |-> AsSet({})]

\* Variant of reinit that leaves the propagation counter as it is.
reinitKeepsPropagations(self) ==
    [clauses |-> <<>>, made_decisions |-> 0,
     made_propagations |-> self.made_propagations, assignment |-> AsSet({})]

\* DPLL.reinit: the fields of the instance `self` after the call
reinit(self) == [clauses |-> <<>>, made_decisions |-> 0, made_propagations |-> 0,
                 assignment |-> AsSet({})]

Self == [clauses |-> clauses, made_decisions |-> made_decisions,
         made_propagations |-> made_propagations, assignment |-> assignment]

\* A call dpll(formula, assignment) that has just been entered.  `entry` is
\* the assignment as it was passed, kept for reference.
NewFrame(formula, asg) ==
    [formula |-> formula, assignment |-> asg, entry |-> asg, pc |-> "enter",
     reduced |-> <<>>, units |-> {}, decided |-> 0]

\* lines 140-141
FirstAssignment(asg, decided_literal) == asg \cup {decided_literal}

\* Variant of SecondAssignment that adds to the set built for the first call
\* instead of to a new copy.
SecondAssignmentReused(asg, decided_literal) ==
    FirstAssignment(asg, decided_literal) \cup {-decided_literal}

\* lines 145-146
SecondAssignment(asg, decided_literal) == asg \cup {-decided_literal}

Top == frames[Len(frames)]
SetTop(f) == [frames EXCEPT ![Len(frames)] = f]
Callers == SubSeq(frames, 1, Len(frames) - 1)

\* The set object of the outermost call is self.assignment itself.
Aliased(asg) == IF Len(frames) = 1 THEN AsSet(asg) ELSE assignment

Outcome(text, res, asg, dec, prop) ==
    [text |-> text, result |-> res, assignment |-> asg,
     made_decisions |-> dec, made_propagations |-> prop]

InputOf(cmd) == IF cmd.op = "solve" THEN cmd.text ELSE returned

\* solve(): lines 20-26, up to the entry of dpll
Solve ==
    /\ script # <<>>
    /\ Head(script).op \in {"solve", "solve_returned"}
    /\ frames = <<>>
    /\ epc # "parsing"
    /\ LET text == InputOf(Head(script))
           fresh == reinit(Self)
           read == fresh.clauses \o read_clauses(text)
       IN  /\ clauses' = read
           /\ made_decisions' = fresh.made_decisions
           /\ made_propagations' = fresh.made_propagations
           /\ assignment' = fresh.assignment
           /\ frames' = <<NewFrame(read, AssignedLits(fresh.assignment))>>
           /\ solved' = Append(solved, Outcome(text, "none", fresh.assignment, 0, 0))
    /\ ret' = "none"
    /\ result' = "none"
    /\ UNCHANGED <<script, popPolicy, evars>>

\* unit_propagation, lines 95-98
UnitPropagationBegin ==
    /\ frames # <<>>
    /\ Top.pc = "enter"
    /\ LET reduced_formula == eliminate_formula(Top.formula, Top.assignment)
       IN  frames' = SetTop([Top EXCEPT !.reduced = reduced_formula,
                                        !.units = UnitsOf(reduced_formula),
                                        !.pc = "loop"])
    /\ UNCHANGED <<script, clauses, made_decisions, made_propagations,
                   assignment, ret, result, popPolicy, solved, evars>>

LoopCondition(f) == f.units # {} /\ f.reduced # <<>>

\* unit_propagation, one iteration of the while loop, lines 100-124
PropagateStep ==
    /\ frames # <<>>
    /\ Top.pc = "loop"
    /\ LoopCondition(Top)
    /\ \E literal \in Poppable(Top.units, popPolicy) :
         LET asg == Top.assignment \cup {literal}
             pass == PropagatePass(Top.reduced, literal, <<>>, Top.units \ {literal})
         IN  /\ made_propagations' = made_propagations + 1
             /\ assignment' = Aliased(asg)
             /\ frames' = SetTop([Top EXCEPT !.assignment = asg,
                                             !.reduced = pass.formula,
                                             !.units = pass.units,
                                             !.pc = IF pass.ok THEN "loop" ELSE "conflict"])
    /\ UNCHANGED <<script, clauses, made_decisions, ret, result, popPolicy,
                   solved, evars>>

Finish(res, asg) ==
    /\ result' = res
    /\ solved' = [solved EXCEPT ![Len(solved)] =
                     Outcome(solved[Len(solved)].text, res, asg,
                             made_decisions, made_propagations)]
    /\ script' = Tail(script)

\* A call returns False to its caller (lines 135 and 150).
ReturnFalse ==
    /\ frames' = Callers
    /\ ret' = "false"
    /\ IF Len(frames) = 1 THEN Finish("false", assignment)
       ELSE UNCHANGED <<result, solved, script>>
    /\ UNCHANGED <<clauses, made_decisions, made_propagations, assignment,
                   popPolicy, evars>>

\* dpll, lines 134-135: propagation failed
ReturnConflict ==
    /\ frames # <<>>
    /\ Top.pc = "conflict"
    /\ ReturnFalse

\* dpll, lines 130-132, and the `return True` of every caller (143, 148)
ReturnSat ==
    /\ frames # <<>>
    /\ Top.pc = "loop"
    /\ ~LoopCondition(Top)
    /\ Top.reduced = <<>>
    /\ assignment' = AsList(Top.assignment)
    /\ frames' = <<>>
    /\ ret' = "true"
    /\ UNCHANGED <<made_decisions, made_propagations>>
    /\ Finish("true", assignment')
    /\ UNCHANGED <<clauses, popPolicy, evars>>

\* dpll, lines 137-142: decide and make the first recursive call
Decide ==
    /\ frames # <<>>
    /\ Top.pc = "loop"
    /\ ~LoopCondition(Top)
    /\ Top.reduced # <<>>
    /\ ~choose_literal_raises(Top.reduced)
    /\ LET decided_literal == choose_literal(Top.reduced)
       IN  frames' = Append(SetTop([Top EXCEPT !.decided = decided_literal,
                                               !.pc = "first"]),
                            NewFrame(Top.reduced,
                                     FirstAssignment(Top.assignment, decided_literal)))
    /\ made_decisions' = made_decisions + 1
    /\ UNCHANGED <<script, clauses, made_propagations, assignment, ret, result,
                   popPolicy, solved, evars>>

\* dpll, line 137 when choose_literal raises (line 58): the exception leaves
\* every active call and solve()
DecideRaises ==
    /\ frames # <<>>
    /\ Top.pc = "loop"
    /\ ~LoopCondition(Top)
    /\ Top.reduced # <<>>
    /\ choose_literal_raises(Top.reduced)
    /\ frames' = <<>>
    /\ ret' = "raise"
    /\ UNCHANGED <<made_decisions, made_propagations>>
    /\ Finish("raise", assignment)
    /\ UNCHANGED <<clauses, assignment, popPolicy, evars>>

\* dpll, lines 145-147: the first call returned False
SecondBranch ==
    /\ frames # <<>>
    /\ Top.pc = "first"
    /\ ret = "false"
    /\ frames' = Append(SetTop([Top EXCEPT !.pc = "second"]),
                        NewFrame(Top.reduced,
                                 SecondAssignment(Top.assignment, Top.decided)))
    /\ ret' = "none"
    /\ UNCHANGED <<script, clauses, made_decisions, made_propagations,
                   assignment, result, popPolicy, solved, evars>>

\* dpll, line 150: both calls returned False
BothFailed ==
    /\ frames # <<>>
    /\ Top.pc = "second"
    /\ ret = "false"
    /\ ReturnFalse

(***************************************************************************)
(* Formula2CNF: parsing                                                    *)
(***************************************************************************)
\* Formula2CNF.__init__(mode)
F2C_init(m) ==
    [mode |-> m, variables |-> <<>>, variables_to_integer |-> <<>>,
     variables_cnt |-> 1, subformulas |-> <<>>, clauses |-> <<>>, root |-> NoneV]

\* Formula2CNF.reinit: the fields of the instance `self` after the call
F2C_reinit(self) ==
    [mode |-> self.mode, variables |-> <<>>, variables_to_integer |-> <<>>,
     variables_cnt |-> 1, subformulas |-> <<>>, clauses |-> <<>>, root |-> NoneV]

F2C_Self ==
    [mode |-> mode, variables |-> variables,
     variables_to_integer |-> variables_to_integer,
     variables_cnt |-> variables_cnt, subformulas |-> subformulas,
     clauses |-> eclauses, root |-> root]

is_operator(op_theory) ==
    op_theory = StrV("or") \/ op_theory = StrV("and") \/ op_theory = StrV("not")

\* get_variable_number: an int that is a known id (of either sign) passes
\* through, anything else is looked up by name
get_variable_number(var) ==
    IF IsInt(var) /\ (Abs(var.n) \in DOMAIN subformulas \/ Abs(var.n) \in DOMAIN variables)
    THEN var
    ELSE IntV(variables_to_integer[var.s])

Neg(v) == IntV(-v.n)

\* Index of the topmost "(" of the stack (0 when there is none)
LastOpen(stk) ==
    LET opens == {i \in 1..Len(stk) : stk[i] = StrV("(")}
    IN  IF opens = {} THEN 0 ELSE CHOOSE i \in opens : \A j \in opens : j <= i

\* lines 75-81: the popped group in its original order, and what is left
Temp(stk) == SubSeq(stk, LastOpen(stk) + 1, Len(stk))
Below(stk) == SubSeq(stk, 1, LastOpen(stk) - 1)

Parsing == epc = "parsing" /\ pos <= Len(tokens)
Token == tokens[pos]

\* Formula2CNF(mode)
NewTranslator ==
    /\ script # <<>>
    /\ Head(script).op = "new"
    /\ frames = <<>>
    /\ epc # "parsing"
    /\ LET self == F2C_init(Head(script).mode)
       IN  /\ mode' = self.mode
           /\ variables' = self.variables
           /\ variables_to_integer' = self.variables_to_integer
           /\ variables_cnt' = self.variables_cnt
           /\ subformulas' = self.subformulas
           /\ eclauses' = self.clauses
           /\ root' = self.root
    /\ epc' = "idle"
    /\ script' = Tail(script)
    /\ UNCHANGED <<tokens, pos, stack, printed, returned, translated, svars>>

\* run(), lines 192-193, and parse_formula up to line 70
Run ==
    /\ script # <<>>
    /\ Head(script).op = "run"
    /\ frames = <<>>
    /\ epc # "parsing"
    /\ LET self == F2C_reinit(F2C_Self)
       IN  /\ mode' = self.mode
           /\ variables' = self.variables
           /\ variables_to_integer' = self.variables_to_integer
           /\ variables_cnt' = self.variables_cnt
           /\ subformulas' = self.subformulas
           /\ eclauses' = self.clauses
           /\ root' = self.root
    /\ tokens' = Head(script).tokens
    /\ pos' = 1
    /\ stack' = <<>>
    /\ epc' = "parsing"
    /\ printed' = <<>>
    /\ UNCHANGED <<script, returned, translated, svars>>

\* parse_formula, lines 72-73
PushBracket ==
    /\ Parsing
    /\ Token = "("
    /\ stack' = Append(stack, StrV(Token))
    /\ pos' = pos + 1
    /\ UNCHANGED <<script, mode, variables, variables_to_integer, variables_cnt,
                   subformulas, eclauses, root, tokens, epc, printed, returned,
                   translated, svars>>

\* parse_formula, lines 74-88: a group that starts with `not`
CloseNot ==
    /\ Parsing
    /\ Token = ")"
    /\ LastOpen(stack) > 0
    /\ Len(Temp(stack)) >= 2
    /\ Temp(stack)[1] = StrV("not")
    /\ LET var_integer == get_variable_number(Temp(stack)[2])
       IN  stack' = Append(Below(stack), Neg(var_integer))
    /\ pos' = pos + 1
    /\ UNCHANGED <<script, mode, variables, variables_to_integer, variables_cnt,
                   subformulas, eclauses, root, tokens, epc, printed, returned,
                   translated, svars>>

\* parse_formula, lines 74-81 and 90-98: any other group
CloseGroup ==
    /\ Parsing
    /\ Token = ")"
    /\ LastOpen(stack) > 0
    /\ Len(Temp(stack)) >= 1
    /\ Temp(stack)[1] # StrV("not")
    /\ LET temp == [i \in 1..Len(Temp(stack)) |->
                        IF is_operator(Temp(stack)[i]) THEN Temp(stack)[i]
                        ELSE get_variable_number(Temp(stack)[i])]
       IN  /\ stack' = Append(Below(stack), IntV(variables_cnt))
           /\ subformulas' = (variables_cnt :> temp) @@ subformulas
    /\ variables_cnt' = variables_cnt + 1
    /\ pos' = pos + 1
    /\ UNCHANGED <<script, mode, variables, variables_to_integer, eclauses, root,
                   tokens, epc, printed, returned, translated, svars>>

\* parse_formula, lines 99-107
PushWord ==
    /\ Parsing
    /\ Token \notin {"(", ")"}
    /\ stack' = Append(stack, StrV(Token))
    /\ IF ~is_operator(StrV(Token)) /\ Token \notin DOMAIN variables_to_integer
       THEN /\ variables' = (variables_cnt :> Token) @@ variables
            /\ variables_to_integer' = (Token :> variables_cnt) @@ variables_to_integer
            /\ variables_cnt' = variables_cnt + 1
       ELSE UNCHANGED <<variables, variables_to_integer, variables_cnt>>
    /\ pos' = pos + 1
    /\ UNCHANGED <<script, mode, subformulas, eclauses, root, tokens, epc,
                   printed, returned, translated, svars>>

(***************************************************************************)
(* Formula2CNF: the Tseitin encoding and the output                        *)
(***************************************************************************)
Clause3(a, b, c) == <<a, b, c, IntV(0)>>
Clause2(a, b) == <<a, b, IntV(0)>>

\* Variant of AndClauses with the sign of the left operand wrong in
\* left-to-right mode.
AndClausesWrongSign(m, node, left_operand, right_operand) ==
    IF m = "eq"
    THEN <<Clause3(Neg(left_operand), Neg(right_operand), node),
           Clause2(left_operand, Neg(node)),
           Clause2(right_operand, Neg(node))>>
    ELSE IF m = "left_to_right"
    THEN <<Clause2(Neg(node), Neg(left_operand)),
           Clause2(Neg(node), right_operand)>>
    ELSE <<>>

\* lines 130-137
AndClauses(m, node, left_operand, right_operand) ==
    IF m = "eq"
    THEN <<Clause3(Neg(left_operand), Neg(right_operand), node),
           Clause2(left_operand, Neg(node)),
           Clause2(right_operand, Neg(node))>>
    ELSE IF m = "left_to_right"
    THEN <<Clause2(Neg(node), left_operand),
           Clause2(Neg(node), right_operand)>>
    ELSE <<>>

\* lines 146-151
OrClauses(m, node, left_operand, right_operand) ==
    IF m = "eq"
    THEN <<Clause3(left_operand, right_operand, Neg(node)),
           Clause2(Neg(left_operand), node),
           Clause2(Neg(right_operand), node)>>
    ELSE IF m = "left_to_right"
    THEN <<Clause3(Neg(node), left_operand, right_operand)>>
    ELSE <<>>

\* tseitin_transform: the clauses it appends, in order
RECURSIVE tseitin_transform(_, _, _)
tseitin_transform(node, subs, m) ==
    IF ~(IsInt(node) /\ node.n \in DOMAIN subs) THEN <<>>
    ELSE LET subformula == subs[node.n]
             op == subformula[1]
         IN  IF op = StrV("and")
             THEN AndClauses(m, node, subformula[2], subformula[3])
                  \o tseitin_transform(subformula[2], subs, m)
                  \o tseitin_transform(subformula[3], subs, m)
             ELSE IF op = StrV("or")
             THEN OrClauses(m, node, subformula[2], subformula[3])
                  \o tseitin_transform(subformula[2], subs, m)
                  \o tseitin_transform(subformula[3], subs, m)
             ELSE <<>>

\* First character of str(v), as far as read_clauses tells characters apart:
\* atom names of the model start with "x"
FirstChar(v) == IF IsInt(v) THEN (IF v.n < 0 THEN "-" ELSE "digit") ELSE "x"

\* get_output, lines 160-183: the text it builds
OutputText(self) ==
    LET C == StrV("c")
        subst(i) ==
            IF i \in DOMAIN self.variables
            THEN Line("c", <<C, IntV(i), StrV("="), StrV(self.variables[i])>>)
            ELSE Line("c", <<C, IntV(i), StrV("=")>> \o self.subformulas[i])
        row(clause) == Line(FirstChar(clause[1]), clause)
    IN  <<Line("c", <<C>>), Line("c", <<C, StrV("Substitutions:")>>)>>
        \o [i \in 1..(self.variables_cnt - 1) |-> subst(i)]
        \o <<Line("c", <<C>>),
             Line("c", <<C, StrV("Root"), StrV("node"), StrV("is"), self.root>>),
             Line("c", <<C>>),
             Line("p", <<StrV("p"), StrV("cnf"), IntV(self.variables_cnt - 1),
                         IntV(Len(self.clauses))>>)>>
        \o [i \in 1..Len(self.clauses) |-> row(self.clauses[i])]

\* get_output, lines 185-186: the text is printed, the empty string returned
get_output(self) == [printed |-> OutputText(self), returned |-> <<>>]

Translation(self, toks) ==
    [tokens |-> toks, mode |-> self.mode, variables |-> self.variables,
     variables_to_integer |-> self.variables_to_integer,
     variables_cnt |-> self.variables_cnt, subformulas |-> self.subformulas,
     root |-> self.root, clauses |-> self.clauses]

\* parse_formula line 110 and run(), lines 193-197
FinishRun ==
    /\ epc = "parsing"
    /\ pos > Len(tokens)
    /\ stack # <<>>
    /\ root' = stack[1]
    /\ eclauses' = eclauses \o <<<<root', IntV(0)>>>>
                            \o tseitin_transform(root', subformulas, mode)
    /\ LET self == [F2C_Self EXCEPT !.root = root', !.clauses = eclauses']
           out == get_output(self)
       IN  /\ printed' = out.printed
           /\ returned' = out.returned
           /\ translated' = Append(translated, Translation(self, tokens))
    /\ epc' = "done"
    /\ script' = Tail(script)
    /\ UNCHANGED <<mode, variables, variables_to_integer, variables_cnt,
                   subformulas, tokens, pos, stack, svars>>

(***************************************************************************)
(* Inputs                                                                  *)
(***************************************************************************)
MaxClauses == 4
MaxOps == 3

Atoms == {"x1", "x2"}
Literals == {-2, -1, 1, 2}
\* the clauses of an input: one or two literals, repeats allowed
ClauseUniverse == {<<l>> : l \in Literals} \cup {<<l, m>> : l \in Literals, m \in Literals}

\* a fixed enumeration of ClauseUniverse
ClauseKey(c) ==
    IF Len(c) = 1 THEN c[1] + 3 ELSE 10 * (c[1] + 3) + (c[2] + 3)

\* clause lists of at most n clauses, listed in the order of ClauseKey
RECURSIVE OrderedClauseLists(_)
OrderedClauseLists(n) ==
    IF n = 0 THEN {<<>>}
    ELSE LET shorter == OrderedClauseLists(n - 1)
             longest == {r \in shorter : Len(r) = n - 1}
         IN  shorter \cup
             UNION {{Append(q, c) : c \in {d \in ClauseUniverse :
                         q = <<>> \/ ClauseKey(q[Len(q)]) <= ClauseKey(d)}} :
                    q \in longest}

CnfInputs == OrderedClauseLists(MaxClauses)

\* The exchange text of a clause list, as a file would hold it
CnfText(cl) ==
    <<Line("c", <<StrV("c"), StrV("input")>>),
      Line("p", <<StrV("p"), StrV("cnf"), IntV(Cardinality({Abs(l) : l \in LiteralsOf(cl)})),
                  IntV(Len(cl))>>)>>
    \o [i \in 1..Len(cl) |->
          Line(FirstChar(IntV(cl[i][1])),
               [j \in 1..(Len(cl[i]) + 1) |->
                   IF j <= Len(cl[i]) THEN IntV(cl[i][j]) ELSE IntV(0)])]

\* Prefix formulas with exactly n connectives, as token lists
RECURSIVE FormulasOfSize(_)
FormulasOfSize(n) ==
    IF n = 0 THEN {<<a>> : a \in Atoms}
    ELSE {<<"(", "not">> \o f \o <<")">> : f \in FormulasOfSize(n - 1)}
         \cup UNION {{<<"(", op>> \o f \o g \o <<")">> :
                         op \in {"and", "or"},
                         f \in FormulasOfSize(i),
                         g \in FormulasOfSize(n - 1 - i)} : i \in 0..(n - 1)}

Formulas == UNION {FormulasOfSize(n) : n \in 0..MaxOps}

Modes == {"eq", "left_to_right"}

MaxClausesReinit == 2
MaxOpsReinit == 2

\* first inputs of a reused solver: satisfiable after a decision, refuted by
\* propagation, refuted after both branches of a decision, and one on which
\* choose_literal raises
PriorInputs ==
    {<<<<1, 2>>, <<-1, -2>>>>,
     <<<<1>>, <<-1>>>>,
     <<<<-2, -1>>, <<-2, 1>>, <<2, -1>>, <<2, 1>>>>,
     <<<<-1, -1>>, <<1, 1>>>>}

\* first inputs of a reused translator
PriorFormulas ==
    {<<"x2">>,
     <<"(", "and", "x2", "(", "not", "x1", ")", ")">>,
     <<"(", "or", "(", "and", "x1", "x2", ")", "x2", ")">>}

(***************************************************************************)
(* Specifications                                                          *)
(***************************************************************************)
InitInstances ==
    /\ clauses = DPLL_init.clauses
    /\ made_decisions = DPLL_init.made_decisions
    /\ made_propagations = DPLL_init.made_propagations
    /\ assignment = DPLL_init.assignment
    /\ frames = <<>>
    /\ ret = "none"
    /\ result = "none"
    /\ solved = <<>>
    /\ mode = F2C_init("eq").mode
    /\ variables = F2C_init("eq").variables
    /\ variables_to_integer = F2C_init("eq").variables_to_integer
    /\ variables_cnt = F2C_init("eq").variables_cnt
    /\ subformulas = F2C_init("eq").subformulas
    /\ eclauses = F2C_init("eq").clauses
    /\ root = F2C_init("eq").root
    /\ tokens = <<>>
    /\ pos = 1
    /\ stack = <<>>
    /\ epc = "idle"
    /\ printed = <<>>
    /\ returned = <<>>
    /\ translated = <<>>

\* The solver on one CNF input, set.pop() unconstrained
InitDPLL ==
    /\ InitInstances
    /\ popPolicy = "any"
    /\ script \in {<<SolveCmd(CnfText(cl))>> : cl \in CnfInputs}

NextDPLL ==
    \/ Solve
    \/ UnitPropagationBegin
    \/ PropagateStep
    \/ ReturnConflict
    \/ ReturnSat
    \/ Decide
    \/ DecideRaises
    \/ SecondBranch
    \/ BothFailed

SpecDPLL == InitDPLL /\ [][NextDPLL]_vars

\* The translator on one formula, once per mode, each result handed to the
\* solver as dpll.py does (lines 191-201)
InitF2C ==
    /\ InitInstances
    /\ popPolicy = "any"
    /\ script \in {<<NewCmd("eq"), RunCmd(f), SolveReturnedCmd,
                     NewCmd("left_to_right"), RunCmd(f), SolveReturnedCmd>> :
                   f \in Formulas}

NextF2C ==
    \/ NewTranslator
    \/ Run
    \/ PushBracket
    \/ CloseNot
    \/ CloseGroup
    \/ PushWord
    \/ FinishRun
    \/ Solve
    \/ UnitPropagationBegin
    \/ ReturnSat

SpecF2C == InitF2C /\ [][NextF2C]_vars

\* One instance used three times: input B on the fresh instance, then A,
\* then B again.  set.pop() on a set of ints is a fixed function of how the
\* set was built, so each behaviour fixes one policy for it.
InitReinit ==
    /\ InitInstances
    /\ popPolicy \in {"min", "max"}
    /\ script \in
         {<<SolveCmd(CnfText(b)), SolveCmd(CnfText(a)), SolveCmd(CnfText(b))>> :
             a \in PriorInputs, b \in OrderedClauseLists(MaxClausesReinit) \cup PriorInputs}
         \cup
         {<<NewCmd(m), RunCmd(b), RunCmd(a), RunCmd(b)>> :
             m \in Modes, a \in PriorFormulas,
             b \in UNION {FormulasOfSize(n) : n \in 0..MaxOpsReinit}}

NextReinit ==
    \/ NextDPLL
    \/ NewTranslator
    \/ Run
    \/ PushBracket
    \/ CloseNot
    \/ CloseGroup
    \/ PushWord
    \/ FinishRun

SpecReinit == InitReinit /\ [][NextReinit]_vars

\* Every scenario above
Init == InitDPLL \/ InitF2C \/ InitReinit
Next == NextReinit
Spec == Init /\ [][Next]_vars

(***************************************************************************)
(* Propositional semantics, used to state the properties                   *)
(***************************************************************************)
VarsOf(formula) == {Abs(l) : l \in LiteralsOf(formula)}

\* every way of giving each variable of V one sign
TotalAssignments(V) == {{IF v \in T THEN v ELSE -v : v \in V} : T \in SUBSET V}

Satisfies(T, formula) ==
    \A i \in 1..Len(formula) : \E j \in 1..Len(formula[i]) : formula[i][j] \in T

HasModelExtending(formula, asg) ==
    \E T \in TotalAssignments(VarsOf(formula) \cup {Abs(l) : l \in asg}) :
        asg \subseteq T /\ Satisfies(T, formula)

NoContradiction(S) == \A l \in S : -l \notin S

\* The heuristic as documented: counts are numbers of clauses
ClausesWith(formula, lit) ==
    Cardinality({i \in 1..Len(formula) : lit \in Range(formula[i])})

DocumentedChoice(formula) ==
    LET pcount == [k \in PosKeys(formula) |-> ClausesWith(formula, k)]
        ncount == [k \in NegKeys(formula) |-> ClausesWith(formula, -k)]
        maxPos == MaxKey(pcount)
        maxNeg == MaxKey(ncount)
    IN  IF DOMAIN ncount = {} THEN maxPos
        ELSE IF DOMAIN pcount = {} THEN -maxNeg
        ELSE IF pcount[maxPos] > ncount[maxNeg] THEN maxPos
        ELSE IF pcount[maxPos] < ncount[maxNeg] THEN -maxNeg
        ELSE IF maxPos >= maxNeg THEN maxPos ELSE -maxNeg

UnsatVerdictCorrect ==
    /\ result = "false" => ~HasModelExtending(clauses, {})
    /\ \A i \in 1..Len(frames) :
          (frames[i].pc = "conflict"
              \/ (i = Len(frames) /\ frames[i].pc = "second" /\ ret = "false"))
          => ~HasModelExtending(frames[i].formula, frames[i].entry)

\* a False result after both branches of a decision failed
UnsatVerdictWitness ==
    /\ result = "false"
    /\ made_decisions >= 1
    /\ made_propagations >= 2

\* C4: no assignment set of any active call, nor the recorded assignment,
\* ever holds a literal and its negation.
NoContradictionInv ==
    /\ NoContradiction(AssignedLits(assignment))
    /\ \A i \in 1..Len(frames) : NoContradiction(frames[i].assignment)

\* a call below a decision that has propagated a literal
NoContradictionWitness ==
    /\ Len(frames) >= 2
    /\ Top.pc = "loop"
    /\ Cardinality(Top.assignment) >= 2
    /\ made_propagations >= 1

\* C8: the literal dpll decided on is the documented choice for the clause
\* list that choose_literal was given.
ChoiceIsDocumented ==
    \A i \in 1..Len(frames) :
        frames[i].pc \in {"first", "second"} =>
            frames[i].decided = DocumentedChoice(frames[i].reduced)

\* C9: choose_literal never raises, and no empty clause is left in the clause
\* list after a successful unit_propagation.
HeuristicNeverRaises ==
    /\ result # "raise"
    /\ (frames # <<>> /\ Top.pc = "loop" /\ ~LoopCondition(Top))
          => <<>> \notin Range(Top.reduced)

(***************************************************************************)
(* Semantics of the translator's input and output                          *)
(***************************************************************************)
\* Truth value of the prefix formula that starts at toks[i] when exactly the
\* atoms of A are true: [v, next], next being the index after the formula
RECURSIVE EvalAt(_, _, _)
EvalAt(toks, i, A) ==
    IF toks[i] # "("
    THEN [v |-> toks[i] \in A, next |-> i + 1]
    ELSE IF toks[i + 1] = "not"
    THEN LET x == EvalAt(toks, i + 2, A)
         IN  [v |-> ~x.v, next |-> x.next + 1]
    ELSE LET x == EvalAt(toks, i + 2, A)
             y == EvalAt(toks, x.next, A)
         IN  [v |-> IF toks[i + 1] = "and" THEN x.v /\ y.v ELSE x.v \/ y.v,
              next |-> y.next + 1]

TruthTableSat(toks) == \E A \in SUBSET Atoms : EvalAt(toks, 1, A).v

\* `not` is never applied directly to an and/or group
NoNegatedGroup(toks) ==
    \A i \in 1..(Len(toks) - 2) :
        ~(toks[i] = "not" /\ toks[i + 1] = "(" /\ toks[i + 2] \in {"and", "or"})

\* a clause of the translator without its 0 sentinel
Unterminated(clause) == SubSeq(clause, 1, Len(clause) - 1)

\* the symbol a literal of the translator speaks about: an id or a name
SymbolOf(v) == IF IsInt(v) THEN IntV(Abs(v.n)) ELSE v

LiteralHolds(v, T) ==
    IF IsInt(v) /\ v.n < 0 THEN SymbolOf(v) \notin T ELSE SymbolOf(v) \in T

ClauseStoreSat(cls) ==
    LET symbols == UNION {{SymbolOf(v) : v \in Range(Unterminated(cls[i]))} :
                          i \in 1..Len(cls)}
    IN  \E T \in SUBSET symbols :
            \A i \in 1..Len(cls) :
                \E j \in 1..(Len(cls[i]) - 1) : LiteralHolds(cls[i][j], T)

(***************************************************************************)
(* Properties of the translator (checked under SpecF2C)                    *)
(***************************************************************************)
\* C1: for every formula, `not` applied to an atom or to a parenthesized
\* subformula, in both modes, the clause store left by run is satisfiable
\* exactly when the formula is satisfiable by truth table.
EncodingEquisatisfiable ==
    epc = "done" => (ClauseStoreSat(eclauses) <=> TruthTableSat(tokens))

\* The same statement restricted to formulas in which `not` is never applied
\* directly to an and/or group: this one holds.
EncodingEquisatisfiableNNF ==
    (epc = "done" /\ NoNegatedGroup(tokens)) =>
        (ClauseStoreSat(eclauses) <=> TruthTableSat(tokens))

\* an unsatisfiable formula of that kind has been translated in
\* left-to-right mode
EncodingWitness ==
    /\ epc = "done"
    /\ mode = "left_to_right"
    /\ NoNegatedGroup(tokens)
    /\ "not" \in Range(tokens)
    /\ Len(eclauses) >= 4
    /\ ~TruthTableSat(tokens)

\* C5: run returns the exchange text of its clause store, and solving the
\* returned text makes read_clauses store the translator's clauses, in
\* order, without their 0 sentinels.
ExchangeRoundTrip ==
    /\ epc = "done" => returned = OutputText(F2C_Self)
    /\ (epc = "done" /\ Len(solved) = Len(translated)) =>
          [i \in 1..Len(clauses) |->
              [j \in 1..Len(clauses[i]) |-> IntV(clauses[i][j])]]
          = [i \in 1..Len(eclauses) |-> Unterminated(eclauses[i])]

\* C6: the clause lists produced for one formula in the two modes are both
\* satisfiable or both unsatisfiable.
ModesAgree ==
    epc = "done" =>
        \A i \in 1..(Len(translated) - 1) :
            (translated[i].tokens = tokens /\ translated[i].mode # mode)
            => (ClauseStoreSat(translated[i].clauses) <=> ClauseStoreSat(eclauses))

\* both modes have translated one unsatisfiable formula, and the clause
\* lists differ
ModesAgreeWitness ==
    /\ epc = "done"
    /\ Len(translated) = 2
    /\ translated[1].mode = "eq"
    /\ mode = "left_to_right"
    /\ translated[1].tokens = tokens
    /\ Len(eclauses) >= 3
    /\ Len(translated[1].clauses) > Len(eclauses)
    /\ ~ClauseStoreSat(eclauses)

\* C10: when parse_formula has consumed every token, one element is on the
\* stack and it is a non-zero integer whose magnitude is a registered id; it
\* is the root that run records.
ParseResultIsId ==
    /\ (epc = "parsing" /\ pos > Len(tokens)) =>
          /\ Len(stack) = 1
          /\ IsInt(stack[1])
          /\ stack[1].n # 0
          /\ Abs(stack[1].n) \in DOMAIN variables \cup DOMAIN subformulas
    /\ epc = "done" =>
          /\ IsInt(root)
          /\ root.n # 0
          /\ Abs(root.n) \in DOMAIN variables \cup DOMAIN subformulas

(***************************************************************************)
(* Reuse of an instance (checked under SpecReinit)                         *)
(***************************************************************************)
\* C7: on an instance that has already been used, solve and run give the
\* results they give for the same input on a fresh instance: result,
\* assignment and both counters; id maps, subformula map, id counter, root
\* and clause list.
ReinitIndependent ==
    /\ \A j \in 2..Len(solved) :
          (solved[j].result # "none" /\ solved[j].text = solved[1].text)
          => solved[j] = solved[1]
    /\ \A j \in 2..Len(translated) :
          translated[j].tokens = translated[1].tokens
          => translated[j] = translated[1]

\* a third call has finished after a first call that left state behind
ReinitWitness ==
    \/ /\ Len(solved) = 3
       /\ solved[3].result = "true"
       /\ solved[3].made_propagations >= 1
       /\ solved[2].result = "false"
       /\ solved[2].made_decisions >= 1
    \/ /\ Len(translated) = 3
       /\ Len(translated[2].clauses) >= 3
       /\ Len(translated[3].clauses) >= 3
       /\ translated[2].tokens # translated[3].tokens

====
